---- MODULE Spec2Model ----
(***************************************************************************)
(* PrivyLedger: the local record store (Dexie tables), the entity stores   *)
(* built on it, and the backup pipeline (exportAllData / importData /      *)
(* deleteAllData).                                                         *)
(***************************************************************************)
EXTENDS Integers, Sequences, FiniteSets, TLC

VARIABLES
    db,            \* the eight Dexie tables: table name -> (id -> row)
    mem,           \* the zustand stores' in-memory lists: table name -> (id -> row)
    localStorage,  \* keys present in window.localStorage
    clock,         \* wall clock read by now()
    nextId,        \* number of ids newId() has issued
    saved,         \* the plaintext export file the user holds (JSON text) or NoFile
    exports,       \* number of exports made
    reading,       \* the export in progress: NoRead, or the arrays read so far
    crypto,        \* the call into core/crypto in progress: inputs, envelope, result
    idb,           \* the IndexedDB database: its version, whether it is open, steps applied
    inflight,      \* store calls past their synchronous part, awaiting the database
    last,          \* history: the operation that produced this state, and what it reported
    trip,          \* history: progress of an export -> wipe -> import sequence
    snap           \* history: the tables as they were when `saved` was exported

vars == <<db, mem, localStorage, clock, nextId, saved, exports, reading, crypto,
          idb, inflight, last, trip, snap>>

(* ------------------------------ bounds -------------------------------- *)
MaxIds == 2      \* ids newId() issues in one behaviour
MaxClock == 2    \* clock ticks in one behaviour
MaxExports == 1  \* exports made in one behaviour
MaxText == 2     \* code units in a plaintext handed to encryptData
MaxCalls == 3    \* encryptData / hashPassphrase calls in one behaviour
MaxPayments == 3 \* addPayment calls that find their loan, in one behaviour
MaxSpends == 2   \* addTransaction calls that find their card, in one behaviour
MaxInflight == 2 \* credit-card calls awaiting the database at one time
MaxRuns == 2     \* processRecurringRules / seedDefaultAccount runs under way at one time

(* ----------------------------- constants ------------------------------ *)
EXPORT_VERSION == 1

Names == {"n1", "n2"}

\* the name a new row is given
AddNames == {"n1"}

SchemaTables ==
    <<"accounts", "transactions", "loans", "subscriptions", "budgets", "goals",
      "recurringRules", "creditCards">>

TableNames == {SchemaTables[i] : i \in DOMAIN SchemaTables}

\* tables read by exportAllData, in its order
ExportTables ==
    <<"accounts", "transactions", "loans", "subscriptions", "budgets", "goals">>

\* tables written by importData, in its order
ImportTables ==
    <<"accounts", "transactions", "loans", "subscriptions", "budgets", "goals">>

\* tables cleared by deleteAllData, in its order
WipeTables ==
    <<"accounts", "transactions", "loans", "subscriptions", "budgets", "goals",
      "recurringRules">>

\* tables that have a zustand store with load/add/update/remove
StoreTables ==
    {"accounts", "transactions", "loans", "subscriptions", "budgets", "goals",
     "creditCards"}

NoFile == <<>>


EmptyTable == [i \in {} |-> 0]

(* ------------------------------- rows --------------------------------- *)
\* BaseEntity plus one data field; deletedAt is an optional key
NewRow(id, name, t) ==
    [id |-> id, createdAt |-> t, updatedAt |-> t, name |-> name]

IsDeleted(r) == "deletedAt" \in DOMAIN r

\* (variant) the default query without the deletedAt filter
active_all(tbl) == tbl

\* active(): only non-deleted records
active(tbl) ==
    LET keep == {i \in DOMAIN tbl : ~IsDeleted(tbl[i])}
    IN  [i \in keep |-> tbl[i]]

\* object spread / Dexie's modify: keys of `changes` override those of `row`
Merge(row, changes) ==
    [k \in (DOMAIN row) \cup (DOMAIN changes) |->
        IF k \in DOMAIN changes THEN changes[k] ELSE row[k]]

\* Table.put: insert or replace by primary key
Put(tbl, row) ==
    [i \in (DOMAIN tbl) \cup {row.id} |-> IF i = row.id THEN row ELSE tbl[i]]

\* Table.update(id, changes): modifies the row when the key exists, else nothing
TableUpdate(tbl, id, changes) ==
    IF id \in DOMAIN tbl THEN [tbl EXCEPT ![id] = Merge(tbl[id], changes)] ELSE tbl

\* list.map(r => r.id === id ? {...r, ...changes} : r)
ListPatch(lst, id, changes) ==
    IF id \in DOMAIN lst THEN [lst EXCEPT ![id] = Merge(lst[id], changes)] ELSE lst

\* list.filter(r => r.id !== id)
ListDrop(lst, id) == [i \in (DOMAIN lst) \ {id} |-> lst[i]]

(* ------------------------------ history ------------------------------- *)
NoVariant == <<"none", 0>>

Op(name) ==
    [op |-> name, variant |-> NoVariant, err |-> "none", message |-> "none",
     failedAt |-> 0, partial |-> FALSE, changed |-> FALSE, rep |-> FALSE,
     repOfChange |-> FALSE]

(* ------------------------------- Init --------------------------------- *)
NoRows == [t \in TableNames |-> EmptyTable]


\* what a call returns: the value, or the name of the error thrown
NoResult == [err |-> "none", val |-> <<>>]

\* no call into core/crypto has been made
NoCrypto ==
    [stage |-> "idle", pass |-> <<>>, text |-> <<>>, salt |-> <<>>, iv |-> <<>>,
     env |-> <<>>, how |-> "none", at |-> 0, used |-> <<>>, result |-> NoResult,
     draws |-> 0, uses |-> <<>>, outs |-> <<>>]

\* versions declared by PrivyLedgerDB's constructor, in its order
DeclaredVersions == <<1, 2>>

\* the database as the running application has it: opened at the last version
Opened == [version |-> 2, open |-> TRUE, steps |-> <<>>]

\* no export is in progress
NoRead == [on |-> FALSE, from |-> NoRows, arrays |-> <<>>]

\* the durable tables found when the database opens: the default account that
\* seedDefaultAccount created on first start, a credit card and a recurring rule
\* (their id is 0; newId() issues 1, 2, ...)
PersistedStore ==
    LET seed == (0 :> NewRow(0, "n1", 0))
    IN  [NoRows EXCEPT !["accounts"] = seed, !["creditCards"] = seed,
                       !["recurringRules"] = seed]

\* the database is open and every store has run its load()
Init ==
    /\ db = PersistedStore
    /\ mem = [t \in StoreTables |-> active(db[t])]
    /\ localStorage = {}
    /\ clock = 1
    /\ nextId = 0
    /\ saved = NoFile
    /\ exports = 0
    /\ reading = NoRead
    /\ crypto = NoCrypto
    /\ idb = Opened
    /\ inflight = <<>>
    /\ last = Op("init")
    /\ trip = 0
    /\ snap = NoRows

\* any other operation ends an export -> wipe -> import sequence in progress
EndTrip == trip' = 0 /\ snap' = NoRows

(* ------------------------------- JSON --------------------------------- *)
\* property order of a serialised row
KeyOrder == <<"id", "createdAt", "updatedAt", "name", "deletedAt">>

\* JSON.stringify of an object: its defined properties as "key": value members
StringifyObject(o) ==
    LET ks == SelectSeq(KeyOrder, LAMBDA k : k \in DOMAIN o)
    IN  [i \in 1..Len(ks) |-> <<ks[i], o[ks[i]]>>]

\* JSON.parse of an object: a repeated key takes its last value
ParseObject(members) ==
    LET keys == {members[i][1] : i \in DOMAIN members}
        lastOf(k) == CHOOSE i \in DOMAIN members :
                        /\ members[i][1] = k
                        /\ \A j \in DOMAIN members : members[j][1] = k => j <= i
    IN  [k \in keys |-> members[lastOf(k)][2]]

HasMember(text, key) == \E i \in DOMAIN text : text[i][1] = key

RECURSIVE IdsAscending(_)
IdsAscending(S) ==
    IF S = {} THEN <<>>
    ELSE LET m == CHOOSE x \in S : \A y \in S : x <= y
         IN  <<m>> \o IdsAscending(S \ {m})

\* Table.toArray(): every row of the table, in primary-key order
toArray(tbl) ==
    LET ids == IdsAscending(DOMAIN tbl)
    IN  [i \in 1..Len(ids) |-> tbl[ids[i]]]

StringifyArray(rows) == [i \in DOMAIN rows |-> StringifyObject(rows[i])]

ParseArray(textArr) == [i \in DOMAIN textArr |-> ParseObject(textArr[i])]

(* ------------------------------ export -------------------------------- *)
\* exportAllData: JSON.stringify of {version, exportedAt, <six arrays>}
ExportText(d, t) ==
    <<  <<"version", EXPORT_VERSION>>, <<"exportedAt", t>> >> \o
    [i \in DOMAIN ExportTables |->
        <<ExportTables[i], StringifyArray(toArray(d[ExportTables[i]]))>>]

\* handleExportJSON: exportAllData then downloadJSON
ExportAllData ==
    /\ exports < MaxExports
    /\ exports' = exports + 1
    /\ saved' = ExportText(db, clock)
    /\ last' = Op("export")
    /\ trip' = 1
    /\ snap' = db
    /\ UNCHANGED <<db, mem, localStorage, clock, nextId, reading, crypto, idb, inflight>>

(* --------------------------- import files ----------------------------- *)
SetMember(text, key, val) ==
    [i \in DOMAIN text |-> IF text[i][1] = key THEN <<key, val>> ELSE text[i]]

DropMember(text, key) == SelectSeq(text, LAMBDA m : m[1] # key)

Member(text, key) == text[CHOOSE i \in DOMAIN text : text[i][1] = key][2]

\* an array entry without the primary key
BadEntry == << <<"createdAt", 0>>, <<"updatedAt", 0>>, <<"name", "n1">> >>

\* an entry of a backup made elsewhere
ForeignEntry ==
    << <<"id", 0>>, <<"createdAt", 0>>, <<"updatedAt", 0>>, <<"name", "n2">> >>

AlterName(entry) ==
    [i \in DOMAIN entry |->
        IF entry[i][1] = "name"
        THEN <<"name", IF entry[i][2] = "n1" THEN "n2" ELSE "n1">>
        ELSE entry[i]]

\* positions in ImportTables at which a handed-in file is altered or the
\* storage engine fails
OmitAt == {1, 6}
BadAt == {1, 2, 6}
DupAt == {1, 6}
EngineFailAt == {1, 3}

\* the ways the file handed to importData derives from the saved export;
\* "engine" is the saved file itself, met by a storage failure
Variants ==
    {<<"asis", 0>>, <<"version", 0>>, <<"wrapper", 0>>, <<"extra", 0>>}
    \cup {<<"omit", k>> : k \in OmitAt}
    \cup {<<"bad", k>> : k \in BadAt}
    \cup {<<"dup", k>> : k \in DupAt}
    \cup {<<"engine", k>> : k \in EngineFailAt}

\* the bulkPut the storage engine rejects under variant v (0: none)
EngineFailure(v) == IF v[1] = "engine" THEN v[2] ELSE 0

VariantEnabled(text, v) ==
    v[1] = "dup" => Len(Member(text, ImportTables[v[2]])) > 0

InputFile(text, v) ==
    CASE v[1] \in {"asis", "engine"} -> text
      [] v[1] = "version" -> SetMember(text, "version", EXPORT_VERSION + 1)
      [] v[1] = "wrapper" -> << <<"encrypted", "base64">>, <<"version", EXPORT_VERSION>> >>
      [] v[1] = "extra"   -> text \o << <<"recurringRules", <<ForeignEntry>> >>,
                                        <<"creditCards", <<ForeignEntry>> >> >>
      [] v[1] = "omit"    -> DropMember(text, ImportTables[v[2]])
      [] v[1] = "bad"     -> LET t == ImportTables[v[2]]
                             IN  SetMember(text, t, Append(Member(text, t), BadEntry))
      [] v[1] = "dup"     -> LET t == ImportTables[v[2]]
                                 arr == Member(text, t)
                             IN  SetMember(text, t, Append(arr, AlterName(arr[1])))

(* ------------------------------ import -------------------------------- *)
\* JSON.parse(jsonString) as ExportPayload
JSONparse(text) ==
    LET top == ParseObject(text)
    IN  [k \in DOMAIN top |-> IF k \in TableNames THEN ParseArray(top[k]) ELSE top[k]]

\* (variant) the version check left out
VersionAccepted_any(data) == TRUE

\* the guard of importData: data.version !== EXPORT_VERSION throws
VersionAccepted(data) ==
    "version" \in DOMAIN data /\ data["version"] = EXPORT_VERSION

\* (variant) a missing array falls back on the accounts array
ArrayOrEmpty_accounts(data, t) ==
    IF t \in DOMAIN data THEN data[t]
    ELSE IF "accounts" \in DOMAIN data THEN data["accounts"] ELSE <<>>

\* data.<table> ?? []
ArrayOrEmpty(data, t) == IF t \in DOMAIN data THEN data[t] ELSE <<>>

\* Table.bulkPut(rows): put each row in order; a row without the key path fails
RECURSIVE BulkPutFrom(_, _, _)
BulkPutFrom(tbl, rows, i) ==
    IF i > Len(rows) THEN [ok |-> TRUE, tbl |-> tbl]
    ELSE IF "id" \notin DOMAIN rows[i]
         THEN [ok |-> FALSE, tbl |-> BulkPutFrom(tbl, rows, i + 1).tbl]
         ELSE BulkPutFrom(Put(tbl, rows[i]), rows, i + 1)

\* (variant) bulkAdd: a row whose key is already in the table fails
bulkPut_add(tbl, rows) ==
    LET r == BulkPutFrom(tbl, rows, 1)
    IN  [ok |-> r.ok /\ \A i \in DOMAIN rows :
                        "id" \in DOMAIN rows[i] => rows[i]["id"] \notin DOMAIN tbl,
         tbl |-> r.tbl]

\* (variant) the table is cleared before the rows are put
bulkPut_replace(tbl, rows) == BulkPutFrom(EmptyTable, rows, 1)

bulkPut(tbl, rows) == BulkPutFrom(tbl, rows, 1)

\* the body of importData's transaction from its k-th bulkPut on; failAt names
\* the bulkPut the storage engine rejects (0: none)
RECURSIVE ImportSteps(_, _, _, _)
ImportSteps(work, data, k, failAt) ==
    IF k > Len(ImportTables) THEN [ok |-> TRUE, work |-> work, failedAt |-> 0]
    ELSE IF failAt = k THEN [ok |-> FALSE, work |-> work, failedAt |-> k]
    ELSE LET t == ImportTables[k]
             r == bulkPut(work[t], ArrayOrEmpty(data, t))
             w == [work EXCEPT ![t] = r.tbl]
         IN  IF r.ok THEN ImportSteps(w, data, k + 1, failAt)
             ELSE [ok |-> FALSE, work |-> w, failedAt |-> k]

\* (variant) no rollback: the writes made before the failure stay
transaction_norollback(before, run) == run.work

\* db.transaction('rw', ...): commit the body's writes, or roll all of them back
transaction(before, run) == IF run.ok THEN run.work ELSE before

\* what importData's transaction leaves: the tables, and how the body ended
ImportOutcome(d, run) ==
    [err |-> IF run.ok THEN "none" ELSE "transaction",
     db |-> transaction(d, run),
     failedAt |-> run.failedAt,
     partial |-> run.work # d]

\* importData(jsonString)
importData(d, text, failAt) ==
    CHOOSE res \in
        { IF ~VersionAccepted(data)
          THEN [err |-> "version", db |-> d, failedAt |-> 0, partial |-> FALSE]
          ELSE CHOOSE o \in {ImportOutcome(d, run) :
                                run \in {ImportSteps(d, data, 1, failAt)}} : TRUE
          : data \in {JSONparse(text)} } : TRUE

\* the message handleImport shows: success unless importData threw
importResult(err) == IF err = "none" THEN "Import successful!" ELSE "Import failed"

\* handleImport: importData on the chosen file, then the result message
HandleImport(v) ==
    /\ saved # NoFile
    /\ VariantEnabled(saved, v)
    /\ \E r \in {importData(db, InputFile(saved, v), EngineFailure(v))} :
       LET ok == r.err = "none"
           again == last.op = "import" /\ last.err = "none" /\ last.variant = v
       IN  /\ db' = r.db
           /\ last' = [op |-> "import", variant |-> v, err |-> r.err,
                       message |-> importResult(r.err),
                       failedAt |-> r.failedAt, partial |-> r.partial,
                       changed |-> r.db # db,
                       rep |-> ok /\ again,
                       repOfChange |-> ok /\ again /\ last.changed]
           /\ IF ok /\ trip = 2 /\ v[1] = "asis"
              THEN trip' = 3 /\ snap' = snap
              ELSE trip' = 0 /\ snap' = NoRows
    /\ UNCHANGED <<mem, localStorage, clock, nextId, saved, exports, reading, crypto, idb, inflight>>

(* ------------------------------- wipe --------------------------------- *)
\* the body of deleteAllData's transaction from its k-th clear on
RECURSIVE WipeSteps(_, _, _)
WipeSteps(work, k, failAt) ==
    IF k > Len(WipeTables) THEN [ok |-> TRUE, work |-> work, failedAt |-> 0]
    ELSE IF failAt = k THEN [ok |-> FALSE, work |-> work, failedAt |-> k]
    ELSE WipeSteps([work EXCEPT ![WipeTables[k]] = EmptyTable], k + 1, failAt)

\* the step of deleteAllData after its transaction: localStorage.clear()
SettingsStep == Len(WipeTables) + 1

\* deleteAllData(): the clearing transaction, then localStorage.clear();
\* failAt names the step that throws (0: none)
DeleteAllData(failAt) ==
    /\ \E run \in {WipeSteps(db, 1, failAt)} :
       LET done == run.ok /\ failAt # SettingsStep
       IN  /\ db' = transaction(db, run)
           /\ localStorage' = IF done THEN {} ELSE localStorage
           /\ last' = [Op("wipe") EXCEPT
                          !.err = IF ~run.ok THEN "transaction"
                                  ELSE IF ~done THEN "storage" ELSE "none",
                          !.partial = run.work # db]
           /\ IF done /\ trip = 1
              THEN trip' = 2 /\ snap' = snap
              ELSE trip' = 0 /\ snap' = NoRows
    /\ UNCHANGED <<mem, clock, nextId, saved, exports, reading, crypto, idb, inflight>>

(* --------------------------- entity stores ---------------------------- *)
\* add: a row with a fresh id, written to the table and put in the list
Add(t, name) ==
    /\ nextId < MaxIds
    /\ clock < MaxClock
    /\ LET id == nextId + 1
           row == NewRow(id, name, clock)
       IN  /\ db' = [db EXCEPT ![t] = Put(db[t], row)]
           /\ mem' = [mem EXCEPT ![t] = Put(mem[t], row)]
           /\ last' = Op("add")
    /\ nextId' = nextId + 1
    /\ clock' = clock + 1
    /\ EndTrip
    /\ UNCHANGED <<localStorage, saved, exports, reading, crypto, idb, inflight>>

\* update: db.<table>.update(id, {...data, updatedAt}) then patch the list
Update(t, id, name) ==
    /\ clock < MaxClock
    /\ LET updated == [name |-> name, updatedAt |-> clock]
       IN  /\ db' = [db EXCEPT ![t] = TableUpdate(db[t], id, updated)]
           /\ mem' = [mem EXCEPT ![t] = ListPatch(mem[t], id, updated)]
    /\ last' = Op("update")
    /\ clock' = clock + 1
    /\ EndTrip
    /\ UNCHANGED <<localStorage, nextId, saved, exports, reading, crypto, idb, inflight>>

\* remove: soft delete in the table, drop from the list
Remove(t, id) ==
    /\ clock < MaxClock
    /\ LET tomb == [deletedAt |-> clock, updatedAt |-> clock]
       IN  db' = [db EXCEPT ![t] = TableUpdate(db[t], id, tomb)]
    /\ mem' = [mem EXCEPT ![t] = ListDrop(mem[t], id)]
    /\ last' = Op("remove")
    /\ clock' = clock + 1
    /\ EndTrip
    /\ UNCHANGED <<localStorage, nextId, saved, exports, reading, crypto, idb, inflight>>

\* load: the default query, db.<table>.filter(r => !r.deletedAt).toArray()
Load(t) ==
    /\ mem' = [mem EXCEPT ![t] = active(db[t])]
    /\ last' = Op("load")
    /\ EndTrip
    /\ UNCHANGED <<db, localStorage, clock, nextId, saved, exports, reading, crypto, idb, inflight>>

(* ------------------------------ settings ------------------------------ *)
SETTINGS_KEY == "pl_settings"

\* saveSettings: localStorage.setItem(SETTINGS_KEY, ...)
SaveSettings ==
    /\ SETTINGS_KEY \notin localStorage
    /\ localStorage' = localStorage \cup {SETTINGS_KEY}
    /\ last' = Op("settings")
    /\ EndTrip
    /\ UNCHANGED <<db, mem, clock, nextId, saved, exports, reading, crypto, idb, inflight>>

Next ==
    \/ \E t \in StoreTables, n \in AddNames : Add(t, n)
    \/ \E t \in StoreTables : \E id \in DOMAIN mem[t], n \in Names : Update(t, id, n)
    \/ \E t \in StoreTables : \E id \in DOMAIN mem[t] : Remove(t, id)
    \/ ExportAllData
    \/ \E v \in Variants : HandleImport(v)
    \/ \E failAt \in 0..SettingsStep : DeleteAllData(failAt)

Spec == Init /\ [][Next]_vars

(* ----------------- the stores, settings and a plain backup ------------ *)
\* ids a caller may hand to update / remove: issued or not
Ids == 0..MaxIds

StoreNext ==
    \/ \E t \in StoreTables, n \in AddNames : Add(t, n)
    \/ \E t \in StoreTables : \E id \in Ids, n \in Names : Update(t, id, n)
    \/ \E t \in StoreTables : \E id \in Ids : Remove(t, id)
    \/ \E t \in StoreTables : Load(t)
    \/ SaveSettings
    \/ ExportAllData
    \/ HandleImport(<<"asis", 0>>)
    \/ \E failAt \in 0..SettingsStep : DeleteAllData(failAt)

StoreSpec == Init /\ [][StoreNext]_vars

(* ------------------ an export that runs beside an import -------------- *)
\* exportAllData starts: Promise.all issues the six toArray() reads, each a
\* read of its own on one table
BeginExport ==
    /\ ~reading.on
    /\ exports < MaxExports
    /\ exports' = exports + 1
    /\ reading' = [on |-> TRUE, from |-> db, arrays |-> <<>>]
    /\ last' = Op("exportBegin")
    /\ EndTrip
    /\ UNCHANGED <<db, mem, localStorage, clock, nextId, saved, crypto, idb, inflight>>

\* the next toArray() of the export completes
ExportRead ==
    /\ reading.on
    /\ Len(reading.arrays) < Len(ExportTables)
    /\ reading' = [reading EXCEPT
                      !.arrays = Append(@, toArray(db[ExportTables[Len(@) + 1]]))]
    /\ last' = Op("exportRead")
    /\ EndTrip
    /\ UNCHANGED <<db, mem, localStorage, clock, nextId, saved, exports, crypto, idb, inflight>>

\* JSON.stringify of the payload built from the six arrays read
ExportTextOf(arrays, t) ==
    <<  <<"version", EXPORT_VERSION>>, <<"exportedAt", t>> >> \o
    [i \in DOMAIN ExportTables |-> <<ExportTables[i], StringifyArray(arrays[i])>>]

\* all six reads are in: the payload is built and handed to the download
ExportFinish ==
    /\ reading.on
    /\ Len(reading.arrays) = Len(ExportTables)
    /\ saved' = ExportTextOf(reading.arrays, clock)
    /\ reading' = NoRead
    /\ last' = Op("export")
    /\ EndTrip
    /\ UNCHANGED <<db, mem, localStorage, clock, nextId, exports, crypto, idb, inflight>>

\* a backup of a store that held one record in each table of T
EarlierStore(T) ==
    [t \in TableNames |-> IF t \in T THEN (0 :> NewRow(0, "n2", 0)) ELSE EmptyTable]

\* the backup files the user may hold from earlier
EarlierBackups ==
    {ExportText(EarlierStore(T), 0) :
        T \in (SUBSET {"accounts", "loans", "goals"}) \ {{}}}

\* as Init, with a backup file from earlier at hand
RaceInit ==
    /\ db = PersistedStore
    /\ mem = [t \in StoreTables |-> active(db[t])]
    /\ localStorage = {}
    /\ clock = 1
    /\ nextId = 0
    /\ saved \in EarlierBackups
    /\ exports = 0
    /\ reading = NoRead
    /\ crypto = NoCrypto
    /\ idb = Opened
    /\ inflight = <<>>
    /\ last = Op("init")
    /\ trip = 0
    /\ snap = NoRows

RaceNext ==
    \/ BeginExport
    \/ ExportRead
    \/ ExportFinish
    \/ HandleImport(<<"asis", 0>>)

RaceSpec == RaceInit /\ [][RaceNext]_vars

(* ------------------ the stores' lists and the tables ------------------ *)
\* the entity stores' operations, and the backup operations that write the
\* tables while the lists are loaded
CacheNext ==
    \/ \E t \in StoreTables, n \in AddNames : Add(t, n)
    \/ \E t \in StoreTables : \E id \in Ids, n \in Names : Update(t, id, n)
    \/ \E t \in StoreTables : \E id \in Ids : Remove(t, id)
    \/ \E t \in StoreTables : Load(t)
    \/ ExportAllData
    \/ HandleImport(<<"asis", 0>>)

CacheSpec == Init /\ [][CacheNext]_vars

(* ============================ core/crypto ============================= *)
\* A string is a sequence of UTF-16 code units: ASCII characters, "BOM"
\* (U+FEFF), "HIGH" (the unpaired surrogate U+D800) and "FFFD" (U+FFFD).
\* A byte of a buffer is <<"raw", n>>, or an AES-GCM output byte (below).
AsciiChars == <<"NUL", "a", "p", "q", "l", "-", "v", "e", "r", "i", "f", "y">>
AsciiCodes == <<0, 97, 112, 113, 108, 45, 118, 101, 114, 105, 102, 121>>

SALT_LEN == 16
IV_LEN == 12
TAG_LEN == 16

Raw(n) == <<"raw", n>>

\* Uint8Array.slice(begin, end): bytes begin .. end-1, clamped to the buffer
slice(bytes, begin, end) ==
    SubSeq(bytes, begin + 1, IF end < Len(bytes) THEN end ELSE Len(bytes))

\* UTF-8 of one code unit, as TextEncoder gives it: an unpaired surrogate is
\* replaced by U+FFFD
Utf8(c) ==
    CASE c = "BOM" -> <<239, 187, 191>>
      [] c \in {"HIGH", "FFFD"} -> <<239, 191, 189>>
      [] OTHER -> <<AsciiCodes[CHOOSE i \in DOMAIN AsciiChars : AsciiChars[i] = c]>>

\* new TextEncoder().encode(str)
RECURSIVE TextEncode(_)
TextEncode(str) ==
    IF str = <<>> THEN <<>> ELSE Utf8(Head(str)) \o TextEncode(Tail(str))

\* the UTF-8 decoder from byte i on; an ill-formed byte gives U+FFFD
RECURSIVE DecodeFrom(_, _)
DecodeFrom(bytes, i) ==
    IF i > Len(bytes) THEN <<>>
    ELSE IF \E k \in DOMAIN AsciiCodes : AsciiCodes[k] = bytes[i]
         THEN <<AsciiChars[CHOOSE k \in DOMAIN AsciiCodes : AsciiCodes[k] = bytes[i]]>>
              \o DecodeFrom(bytes, i + 1)
    ELSE IF i + 2 <= Len(bytes) /\ SubSeq(bytes, i, i + 2) = <<239, 187, 191>>
         THEN <<"BOM">> \o DecodeFrom(bytes, i + 3)
    ELSE IF i + 2 <= Len(bytes) /\ SubSeq(bytes, i, i + 2) = <<239, 191, 189>>
         THEN <<"FFFD">> \o DecodeFrom(bytes, i + 3)
    ELSE <<"FFFD">> \o DecodeFrom(bytes, i + 1)

\* new TextDecoder().decode(bytes): UTF-8, not fatal, a leading BOM is dropped
TextDecode(bytes) ==
    CHOOSE r \in { IF d # <<>> /\ Head(d) = "BOM" THEN Tail(d) ELSE d
                   : d \in {DecodeFrom(bytes, 1)} } : TRUE

\* a character outside the base64 alphabet
NotBase64 == <<"!">>

\* bufferToBase64: btoa(String.fromCharCode(...bytes)), one symbol per byte
bufferToBase64(bytes) == [i \in DOMAIN bytes |-> <<"b64", bytes[i]>>]

\* base64ToUint8Array: atob throws on a character outside the alphabet
base64ToUint8Array(b64) ==
    IF \E i \in DOMAIN b64 : b64[i][1] # "b64"
    THEN [err |-> "InvalidCharacterError", val |-> <<>>]
    ELSE [err |-> "none", val |-> [i \in DOMAIN b64 |-> b64[i][2]]]

\* the HMAC key PBKDF2 makes of a password shorter than the hash block: the
\* password padded with zero bytes, so trailing zero bytes make no difference
RECURSIVE HmacKey(_)
HmacKey(bytes) ==
    IF bytes # <<>> /\ bytes[Len(bytes)] = 0
    THEN HmacKey(SubSeq(bytes, 1, Len(bytes) - 1))
    ELSE bytes

\* (variant) the salt is left out of the derivation
deriveKey_nosalt(passphrase, salt) == <<"key", HmacKey(TextEncode(passphrase)), <<>>>>

\* deriveKey: PBKDF2-HMAC-SHA-256 of the encoded passphrase and the salt,
\* otherwise taken to be free of collisions
deriveKey(passphrase, salt) == <<"key", HmacKey(TextEncode(passphrase)), salt>>

\* crypto.subtle.encrypt, AES-GCM: the ciphertext bytes, then the tag bytes.
\* A ciphertext byte is fixed by key, iv, position and plaintext byte; a tag
\* byte by key, iv and the whole plaintext.
AesGcmEncrypt(key, iv, pt) ==
    [i \in DOMAIN pt |-> <<"ct", key, iv, i, pt[i]>>]
    \o [j \in 1..TAG_LEN |-> <<"tag", key, iv, pt, j>>]

\* (variant) the generator hands out the same bytes every time
getRandomValues_same(len, k) == [i \in 1..len |-> Raw(1)]

\* crypto.getRandomValues(new Uint8Array(len)), the k-th draw made: the
\* generator is taken never to give the same bytes twice
getRandomValues(len, k) == [i \in 1..len |-> Raw(k)]

\* (variant) the ciphertext is decrypted and the tag is not checked
AesGcmDecrypt_unchecked(key, iv, data) ==
    IF Len(iv) = 0 \/ Len(data) < TAG_LEN
    THEN [err |-> "OperationError", val |-> <<>>]
    ELSE LET n == Len(data) - TAG_LEN
         IN  [err |-> "none",
              val |-> [i \in 1..n |->
                         IF data[i][1] = "ct" THEN data[i][5] ELSE 189]]

\* crypto.subtle.decrypt, AES-GCM: the plaintext when the data is what the key
\* and iv give for it, tag included; OperationError otherwise
AesGcmDecrypt(key, iv, data) ==
    IF Len(iv) = 0 \/ Len(data) < TAG_LEN
    THEN [err |-> "OperationError", val |-> <<>>]
    ELSE LET n == Len(data) - TAG_LEN
         IN  IF \E i \in 1..n : data[i][1] # "ct"
             THEN [err |-> "OperationError", val |-> <<>>]
             ELSE CHOOSE r \in
                    { IF AesGcmEncrypt(key, iv, pt) = data
                      THEN [err |-> "none", val |-> pt]
                      ELSE [err |-> "OperationError", val |-> <<>>]
                      : pt \in {[i \in 1..n |-> data[i][5]]} } : TRUE

\* encryptData(data, passphrase) with the random salt and iv it drew:
\* base64 of [16B salt][12B iv][ciphertext]
encryptData(data, passphrase, salt, iv) ==
    bufferToBase64(
        salt \o iv \o AesGcmEncrypt(deriveKey(passphrase, salt), iv, TextEncode(data)))

\* (variant) the ciphertext is taken from the wrong offset
decryptData_offset(encoded, passphrase) ==
    LET combined == base64ToUint8Array(encoded)
    IN  IF combined.err # "none" THEN combined
        ELSE LET bytes == combined.val
                 salt == slice(bytes, 0, SALT_LEN)
                 iv == slice(bytes, SALT_LEN, SALT_LEN + IV_LEN)
                 data == slice(bytes, SALT_LEN + IV_LEN + 1, Len(bytes))
                 plaintext == AesGcmDecrypt(deriveKey(passphrase, salt), iv, data)
             IN  IF plaintext.err # "none" THEN plaintext
                 ELSE [err |-> "none", val |-> TextDecode(plaintext.val)]

\* decryptData(encoded, passphrase): the string, or the error thrown
decryptData(encoded, passphrase) ==
    LET combined == base64ToUint8Array(encoded)
    IN  IF combined.err # "none" THEN combined
        ELSE LET bytes == combined.val
                 salt == slice(bytes, 0, SALT_LEN)
                 iv == slice(bytes, SALT_LEN, SALT_LEN + IV_LEN)
                 data == slice(bytes, SALT_LEN + IV_LEN, Len(bytes))
                 plaintext == AesGcmDecrypt(deriveKey(passphrase, salt), iv, data)
             IN  IF plaintext.err # "none" THEN plaintext
                 ELSE [err |-> "none", val |-> TextDecode(plaintext.val)]

\* the sentinel hashPassphrase encrypts, and its fixed iv
SENTINEL == <<"p", "l", "-", "v", "e", "r", "i", "f", "y">>
ZeroIv == [i \in 1..IV_LEN |-> Raw(0)]

\* hashPassphrase(passphrase) with the random salt it drew:
\* base64 of [16B salt][token]
hashPassphrase(passphrase, salt) ==
    bufferToBase64(
        salt \o AesGcmEncrypt(deriveKey(passphrase, salt), ZeroIv, TextEncode(SENTINEL)))

\* verifyPassphrase(passphrase, stored): any throw inside gives false
verifyPassphrase(passphrase, stored) ==
    LET combined == base64ToUint8Array(stored)
    IN  IF combined.err # "none" THEN [err |-> "none", val |-> FALSE]
        ELSE LET bytes == combined.val
                 salt == slice(bytes, 0, SALT_LEN)
                 token == slice(bytes, SALT_LEN, Len(bytes))
                 plaintext == AesGcmDecrypt(deriveKey(passphrase, salt), ZeroIv, token)
             IN  IF plaintext.err # "none" THEN [err |-> "none", val |-> FALSE]
                 ELSE [err |-> "none", val |-> TextDecode(plaintext.val) = SENTINEL]

(* ------------------------- calls into core/crypto --------------------- *)
\* the passphrases and plaintexts handed in
Passphrases == {<<"p">>, <<"q">>, <<"p", "NUL">>, <<"HIGH">>, <<"FFFD">>}

TextUnits == {"a", "BOM", "HIGH"}

Plaintexts == UNION {[1..n -> TextUnits] : n \in 0..MaxText}

\* what crypto.getRandomValues may give for the salt and the iv
RandomDraws ==
    {[salt |-> [i \in 1..SALT_LEN |-> Raw(r)], iv |-> [i \in 1..IV_LEN |-> Raw(r + 2)]]
        : r \in 1..2}

\* a caller is about to encrypt `text`, or to hash the passphrase, under `pass`
CryptoInit ==
    /\ db = PersistedStore
    /\ mem = [t \in StoreTables |-> active(db[t])]
    /\ localStorage = {}
    /\ clock = 1
    /\ nextId = 0
    /\ saved = NoFile
    /\ exports = 0
    /\ reading = NoRead
    /\ idb = Opened
    /\ inflight = <<>>
    /\ crypto \in {[NoCrypto EXCEPT !.stage = "start", !.pass = P, !.text = T,
                                    !.salt = r.salt, !.iv = r.iv]
                     : P \in Passphrases, T \in Plaintexts, r \in RandomDraws}
    /\ last = Op("init")
    /\ trip = 0
    /\ snap = NoRows

storeVars ==
    <<db, mem, localStorage, clock, nextId, saved, exports, reading, idb, inflight,
      last, trip, snap>>

\* encryptData(text, pass)
EncryptData ==
    /\ crypto.stage = "start"
    /\ crypto' = [crypto EXCEPT
                    !.stage = "encrypted",
                    !.env = encryptData(crypto.text, crypto.pass, crypto.salt, crypto.iv)]
    /\ UNCHANGED storeVars

\* hashPassphrase(pass)
HashPassphrase ==
    /\ crypto.stage = "start"
    /\ crypto' = [crypto EXCEPT
                    !.stage = "hashed",
                    !.env = hashPassphrase(crypto.pass, crypto.salt)]
    /\ UNCHANGED storeVars

\* a byte with another value
Flip(b) == <<"flip", b>>

\* the bytes of the envelope someone may change: the first of the salt, the
\* first of the iv, and every byte of the ciphertext/tag region
TamperAt(env) == {1, SALT_LEN + 1} \cup ((SALT_LEN + IV_LEN + 1)..Len(env))

\* the envelope reaches its reader with byte i - 1 changed
Tamper(i) ==
    /\ crypto.stage \in {"encrypted", "hashed"}
    /\ crypto.how = "none"
    /\ i \in TamperAt(crypto.env)
    /\ crypto' = [crypto EXCEPT
                    !.how = "tamper", !.at = i,
                    !.env = [@ EXCEPT ![i] = <<"b64", Flip(@[2])>>]]
    /\ UNCHANGED storeVars

\* lengths an envelope may be cut to
TruncateTo(env) == {0, SALT_LEN - 1, SALT_LEN + IV_LEN, Len(env) - 1}

\* the envelope reaches its reader cut short
Truncate(n) ==
    /\ crypto.stage \in {"encrypted", "hashed"}
    /\ crypto.how = "none"
    /\ n \in TruncateTo(crypto.env)
    /\ crypto' = [crypto EXCEPT
                    !.how = "truncate", !.at = n, !.env = SubSeq(@, 1, n)]
    /\ UNCHANGED storeVars

\* the envelope reaches its reader with a character that is not base64
Garble ==
    /\ crypto.stage \in {"encrypted", "hashed"}
    /\ crypto.how = "none"
    /\ crypto' = [crypto EXCEPT
                    !.how = "garble", !.env = [@ EXCEPT ![Len(@)] = NotBase64]]
    /\ UNCHANGED storeVars

\* decryptData(env, Q)
DecryptData(Q) ==
    /\ crypto.stage = "encrypted"
    /\ crypto' = [crypto EXCEPT
                    !.stage = "decrypted", !.used = Q,
                    !.result = decryptData(crypto.env, Q)]
    /\ UNCHANGED storeVars

\* verifyPassphrase(Q, env)
VerifyPassphrase(Q) ==
    /\ crypto.stage = "hashed"
    /\ crypto' = [crypto EXCEPT
                    !.stage = "verified", !.used = Q,
                    !.result = verifyPassphrase(Q, crypto.env)]
    /\ UNCHANGED storeVars

CryptoNext ==
    \/ EncryptData
    \/ HashPassphrase
    \/ \E i \in 1..Len(crypto.env) : Tamper(i)
    \/ \E n \in 0..Len(crypto.env) : Truncate(n)
    \/ Garble
    \/ \E Q \in Passphrases : DecryptData(Q)
    \/ \E Q \in Passphrases : VerifyPassphrase(Q)

CryptoSpec == CryptoInit /\ [][CryptoNext]_vars

(* -------------------- a sequence of encrypting calls ------------------ *)
\* the plaintexts handed to encryptData in a sequence of calls
CallTexts == {<<>>, <<"a">>}

\* encryptData(T, P), drawing its salt and iv; `uses` records the key and
\* nonce handed to crypto.subtle.encrypt, `outs` what the call returned
EncryptCall(T, P) ==
    /\ Len(crypto.outs) < MaxCalls
    /\ LET salt == getRandomValues(SALT_LEN, crypto.draws + 1)
           iv == getRandomValues(IV_LEN, crypto.draws + 2)
       IN  crypto' = [crypto EXCEPT
                        !.draws = @ + 2,
                        !.uses = Append(@, [key |-> deriveKey(P, salt), iv |-> iv]),
                        !.outs = Append(@, [fn |-> "encryptData", text |-> T, pass |-> P,
                                            env |-> encryptData(T, P, salt, iv)])]
    /\ UNCHANGED storeVars

\* hashPassphrase(P), drawing its salt
HashCall(P) ==
    /\ Len(crypto.outs) < MaxCalls
    /\ LET salt == getRandomValues(SALT_LEN, crypto.draws + 1)
       IN  crypto' = [crypto EXCEPT
                        !.draws = @ + 1,
                        !.uses = Append(@, [key |-> deriveKey(P, salt), iv |-> ZeroIv]),
                        !.outs = Append(@, [fn |-> "hashPassphrase", text |-> SENTINEL,
                                            pass |-> P,
                                            env |-> hashPassphrase(P, salt)])]
    /\ UNCHANGED storeVars

CallsNext ==
    \/ \E T \in CallTexts, P \in Passphrases : EncryptCall(T, P)
    \/ \E P \in Passphrases : HashCall(P)

CallsSpec == Init /\ [][CallsNext]_vars

(* --------------------------- opening the database --------------------- *)
\* the object stores declared by this.version(v).stores({...})
StoresOf(v) ==
    IF v = 1 THEN {SchemaTables[i] : i \in 1..7} ELSE {SchemaTables[i] : i \in 1..8}

\* (variant) a version step that creates every declared store anew
UpgradeStep_recreate(d, v) == [t \in StoresOf(v) |-> EmptyTable]

\* Dexie's step to version v: a store the version declares and the database
\* lacks is created empty; the stores that exist keep their rows
UpgradeStep(d, v) ==
    [t \in (DOMAIN d) \cup StoresOf(v) |-> IF t \in DOMAIN d THEN d[t] ELSE EmptyTable]

\* Dexie's upgrade on open: the declared versions above the stored one, in
\* the order declared, from the k-th on
RECURSIVE RunUpgraders(_, _)
RunUpgraders(st, k) ==
    IF k > Len(DeclaredVersions) THEN st
    ELSE LET v == DeclaredVersions[k]
         IN  IF v <= st.version THEN RunUpgraders(st, k + 1)
             ELSE RunUpgraders([d |-> UpgradeStep(st.d, v), version |-> v,
                                steps |-> Append(st.steps, v)], k + 1)

\* a database created by the release that declared version 1 only: its seven
\* stores, some of them holding a row
V1Databases ==
    {[t \in StoresOf(1) |-> IF t \in T THEN (0 :> NewRow(0, "n1", 0)) ELSE EmptyTable]
        : T \in SUBSET {"accounts", "loans", "recurringRules"}}

\* the application is about to start: no database yet, or one left at version 1
SchemaInit ==
    /\ \/ /\ db = <<>>
          /\ idb = [version |-> 0, open |-> FALSE, steps |-> <<>>]
       \/ /\ db \in V1Databases
          /\ idb = [version |-> 1, open |-> FALSE, steps |-> <<1>>]
    /\ mem = [t \in StoreTables |-> EmptyTable]
    /\ localStorage = {}
    /\ clock = 1
    /\ nextId = 0
    /\ saved = NoFile
    /\ exports = 0
    /\ reading = NoRead
    /\ crypto = NoCrypto
    /\ inflight = <<>>
    /\ last = Op("init")
    /\ trip = 0
    /\ snap = NoRows

\* new PrivyLedgerDB() and the first use of it: Dexie opens the database
Open ==
    /\ ~idb.open
    /\ \E r \in {RunUpgraders([d |-> db, version |-> idb.version, steps |-> idb.steps], 1)} :
          /\ db' = r.d
          /\ idb' = [version |-> r.version, open |-> TRUE, steps |-> r.steps]
    /\ last' = Op("open")
    /\ EndTrip
    /\ UNCHANGED <<mem, localStorage, clock, nextId, saved, exports, reading, crypto,
                   inflight>>

\* the page is closed: the connection and the stores' lists go
Close ==
    /\ idb.open
    /\ idb' = [idb EXCEPT !.open = FALSE]
    /\ mem' = [t \in StoreTables |-> EmptyTable]
    /\ last' = Op("close")
    /\ EndTrip
    /\ UNCHANGED <<db, localStorage, clock, nextId, saved, exports, reading, crypto,
                   inflight>>

SchemaNext ==
    \/ Open
    \/ Close
    \/ \E t \in StoreTables, n \in AddNames : idb.open /\ t \in DOMAIN db /\ Add(t, n)

SchemaSpec == SchemaInit /\ [][SchemaNext]_vars

(* ------------------------------ loan store ---------------------------- *)
\* Math.max(a, b)
Max(a, b) == IF a >= b THEN a ELSE b

\* a loan as LoanForm's add stores it: nothing repaid, no payments
NewLoan(id, principal) ==
    [id |-> id, name |-> "n1", createdAt |-> 0, updatedAt |-> 0,
     principalMinorUnits |-> principal, remainingMinorUnits |-> principal,
     status |-> "active", payments |-> <<>>]

\* the principal of the loan, and the amounts PaymentForm submits (minor units)
Principals == {2, 3}
Amounts == {1, 2}

\* the loan a payment is submitted for: the stored one, or one the list lacks
LoanIds == {0, 1}

\* the loans page is open on one loan, the list loaded
LoanInit ==
    /\ \E principal \in Principals :
          db = [NoRows EXCEPT !["loans"] = (0 :> NewLoan(0, principal))]
    /\ mem = [t \in StoreTables |-> active(db[t])]
    /\ localStorage = {}
    /\ clock = 1
    /\ nextId = 0
    /\ saved = NoFile
    /\ exports = 0
    /\ reading = NoRead
    /\ crypto = NoCrypto
    /\ idb = Opened
    /\ inflight = <<>>
    /\ last = Op("init")
    /\ trip = 0
    /\ snap = NoRows

\* newStatus of addPayment
LoanStatus(newRemaining, principal) ==
    IF newRemaining = 0 THEN "settled"
    ELSE IF newRemaining < principal THEN "partially_paid"
    ELSE "active"

\* addPayment up to its await: the loan is read from the list, the changed
\* fields are computed from it and db.loans.update is issued
AddPaymentStart(loanId, amount) ==
    /\ IF loanId \notin DOMAIN mem["loans"]
       THEN UNCHANGED <<inflight, nextId>>
       ELSE /\ nextId < MaxPayments
            /\ LET loan == mem["loans"][loanId]
                   payment == [id |-> nextId + 1, amount |-> amount]
                   newRemaining == Max(0, loan.remainingMinorUnits - payment.amount)
                   updatedLoan ==
                       [payments |-> Append(loan.payments, payment),
                        remainingMinorUnits |-> newRemaining,
                        status |-> LoanStatus(newRemaining, loan.principalMinorUnits),
                        updatedAt |-> clock]
               IN  inflight' = Append(inflight,
                                      [fn |-> "addPayment", id |-> loanId,
                                       arg |-> payment, changes |-> updatedLoan])
            /\ nextId' = nextId + 1
    /\ last' = [Op("addPayment") EXCEPT
                  !.err = IF loanId \in DOMAIN mem["loans"] THEN "none" ELSE "return"]
    /\ EndTrip
    /\ UNCHANGED <<db, mem, localStorage, clock, saved, exports, reading, crypto, idb>>

\* addPayment from its await on: the update issued first is written, then the
\* list entry is patched with the same fields
AddPaymentFinish ==
    /\ inflight # <<>>
    /\ Head(inflight).fn = "addPayment"
    /\ LET call == Head(inflight)
       IN  /\ db' = [db EXCEPT !["loans"] = TableUpdate(@, call.id, call.changes)]
           /\ mem' = [mem EXCEPT !["loans"] = ListPatch(@, call.id, call.changes)]
    /\ inflight' = Tail(inflight)
    /\ last' = Op("addPaymentDone")
    /\ EndTrip
    /\ UNCHANGED <<localStorage, clock, nextId, saved, exports, reading, crypto, idb>>

LoanNext ==
    \/ \E loanId \in LoanIds, amount \in Amounts : AddPaymentStart(loanId, amount)
    \/ AddPaymentFinish
    \/ Load("loans")

LoanSpec == LoanInit /\ [][LoanNext]_vars

(* --------------------------- credit-card store ------------------------ *)
\* the statuses a card is stored with: the two the store names, and another
CardStatuses == {"active", "overdue", "closed"}

\* a card as CardForm's add stores it
NewCard(id, balance, status) ==
    [id |-> id, name |-> "n1", createdAt |-> 0, updatedAt |-> 0,
     balanceMinorUnits |-> balance, status |-> status, transactions |-> <<>>]

\* the opening balance CardForm submits (minor units, min 0)
Balances == {0, 1}

\* the card a call names: the stored one, or one the list lacks
CardIds == {0, 1}

\* the transaction ids removeTransaction may be given
TxnIds == 1..(MaxSpends + 1)

\* the credit-cards page is open on one card, the list loaded
CardInit ==
    /\ \E balance \in Balances, status \in CardStatuses :
          db = [NoRows EXCEPT !["creditCards"] = (0 :> NewCard(0, balance, status))]
    /\ mem = [t \in StoreTables |-> active(db[t])]
    /\ localStorage = {}
    /\ clock = 1
    /\ nextId = 0
    /\ saved = NoFile
    /\ exports = 0
    /\ reading = NoRead
    /\ crypto = NoCrypto
    /\ idb = Opened
    /\ inflight = <<>>
    /\ last = Op("init")
    /\ trip = 0
    /\ snap = NoRows

\* the call returned before its await: nothing is written
Returned(name) ==
    /\ last' = [Op(name) EXCEPT !.err = "return"]
    /\ UNCHANGED <<inflight, nextId>>

\* the call issued db.creditCards.update(cardId, updatedCard)
Issued(name, cardId, arg, updatedCard) ==
    /\ Len(inflight) < MaxInflight
    /\ inflight' = Append(inflight, [fn |-> name, id |-> cardId, arg |-> arg,
                                     changes |-> updatedCard])
    /\ last' = Op(name)

\* addTransaction up to its await
AddTransactionStart(cardId, amount) ==
    /\ IF cardId \notin DOMAIN mem["creditCards"]
       THEN Returned("addTransaction")
       ELSE /\ nextId < MaxSpends
            /\ LET card == mem["creditCards"][cardId]
                   txn == [id |-> nextId + 1, amountMinorUnits |-> amount]
                   newBalance == card.balanceMinorUnits + txn.amountMinorUnits
               IN  Issued("addTransaction", cardId, txn.id,
                          [transactions |-> Append(card.transactions, txn),
                           balanceMinorUnits |-> newBalance,
                           updatedAt |-> clock])
            /\ nextId' = nextId + 1
    /\ EndTrip
    /\ UNCHANGED <<db, mem, localStorage, clock, saved, exports, reading, crypto, idb>>

\* card.transactions.filter((t) => t.id !== txnId)
WithoutTxn(transactions, txnId) == SelectSeq(transactions, LAMBDA t : t.id # txnId)

\* Math.max(0, card.balanceMinorUnits - amount)
RemovedBalance(balance, amount) == Max(0, balance - amount)

\* removeTransaction up to its await
RemoveTransactionStart(cardId, txnId) ==
    /\ IF cardId \notin DOMAIN mem["creditCards"]
       THEN Returned("removeTransaction")
       ELSE LET card == mem["creditCards"][cardId]
                found == {i \in DOMAIN card.transactions : card.transactions[i].id = txnId}
            IN  IF found = {}
                THEN Returned("removeTransaction")
                ELSE /\ LET txn == card.transactions[CHOOSE i \in found : TRUE]
                        IN  Issued("removeTransaction", cardId, txnId,
                                   [transactions |-> WithoutTxn(card.transactions, txnId),
                                    balanceMinorUnits |->
                                        RemovedBalance(card.balanceMinorUnits,
                                                       txn.amountMinorUnits),
                                    updatedAt |-> clock])
                     /\ UNCHANGED nextId
    /\ EndTrip
    /\ UNCHANGED <<db, mem, localStorage, clock, saved, exports, reading, crypto, idb>>

\* newStatus of recordPayment
PaidStatus(newBalance, status) ==
    IF newBalance = 0 THEN "active" ELSE IF status = "overdue" THEN "active" ELSE status

\* recordPayment up to its await
RecordPaymentStart(cardId, amount) ==
    /\ IF cardId \notin DOMAIN mem["creditCards"]
       THEN Returned("recordPayment")
       ELSE /\ LET card == mem["creditCards"][cardId]
                   newBalance == RemovedBalance(card.balanceMinorUnits, amount)
               IN  Issued("recordPayment", cardId, amount,
                          [balanceMinorUnits |-> newBalance,
                           status |-> PaidStatus(newBalance, card.status),
                           updatedAt |-> clock])
            /\ UNCHANGED nextId
    /\ EndTrip
    /\ UNCHANGED <<db, mem, localStorage, clock, saved, exports, reading, crypto, idb>>

\* a credit-card call from its await on: the update issued first is written,
\* then the list entry is patched with the same fields
CardFinish(name) ==
    /\ inflight # <<>>
    /\ Head(inflight).fn = name
    /\ LET call == Head(inflight)
       IN  /\ db' = [db EXCEPT !["creditCards"] = TableUpdate(@, call.id, call.changes)]
           /\ mem' = [mem EXCEPT !["creditCards"] = ListPatch(@, call.id, call.changes)]
    /\ inflight' = Tail(inflight)
    /\ last' = [Op(name) EXCEPT !.changed = TRUE]
    /\ EndTrip
    /\ UNCHANGED <<localStorage, clock, nextId, saved, exports, reading, crypto, idb>>

\* the three calls that end this way
CardCalls == {"addTransaction", "removeTransaction", "recordPayment"}

CardNext ==
    \/ \E cardId \in CardIds, amount \in Amounts : AddTransactionStart(cardId, amount)
    \/ \E cardId \in CardIds, txnId \in TxnIds : RemoveTransactionStart(cardId, txnId)
    \/ \E cardId \in CardIds, amount \in Amounts : RecordPaymentStart(cardId, amount)
    \/ \E name \in CardCalls : CardFinish(name)

CardSpec == CardInit /\ [][CardNext]_vars

(* ------------------------- recurring generation ----------------------- *)
\* nextOccurrence for the frequencies counted in days (dates are day numbers)
nextOccurrence(from, frequency) ==
    CASE frequency = "daily" -> from + 1
      [] frequency = "weekly" -> from + 7
      [] frequency = "biweekly" -> from + 14

\* isBefore(new Date(rule.endDate), current), when the rule has an endDate
PastEnd(rule, current) == "endDate" \in DOMAIN rule /\ rule.endDate < current

\* the dates the while loop generates from `current` on, today being `today`
RECURSIVE DatesFrom(_, _, _)
DatesFrom(rule, current, today) ==
    IF ~(current < today) \/ PastEnd(rule, current) THEN <<>>
    ELSE <<current>> \o DatesFrom(rule, nextOccurrence(current, rule.frequency), today)

\* the dates one pass of the for loop generates for a rule
NewDates(rule, today) ==
    LET startFrom == IF "lastGeneratedDate" \in DOMAIN rule
                     THEN rule.lastGeneratedDate ELSE rule.startDate
        current == nextOccurrence(startFrom, rule.frequency)
    IN  IF PastEnd(rule, current) THEN <<>> ELSE DatesFrom(rule, current, today)

\* the transaction generated for a date, with the id newId() gave it
Generated(rule, date, id, t) ==
    [id |-> id, name |-> "n1", createdAt |-> t, updatedAt |-> t,
     date |-> date, isRecurring |-> TRUE, recurringId |-> rule.id]

\* Table.bulkAdd of the transactions for `dates`, ids from `first` on
BulkAddGenerated(tbl, rule, dates, first, t) ==
    [i \in (DOMAIN tbl) \cup {first + k - 1 : k \in DOMAIN dates} |->
        IF i \in DOMAIN tbl THEN tbl[i]
        ELSE Generated(rule, dates[i - first + 1], i, t)]

\* a recurring rule as stored: daily or weekly, started on day 0 or the day
\* before, with or without an end date
StoredRules ==
    {[id |-> 0, name |-> "n1", createdAt |-> 0, updatedAt |-> 0, isActive |-> TRUE,
      frequency |-> f, startDate |-> d] : f \in {"daily", "weekly"}, d \in {-1, 0}}
    \cup
    {[id |-> 0, name |-> "n1", createdAt |-> 0, updatedAt |-> 0, isActive |-> TRUE,
      frequency |-> "daily", startDate |-> -1, endDate |-> 0]}

\* the application starts (today is day `clock`) with one rule stored
RecurInit ==
    /\ \E rule \in StoredRules :
          db = [NoRows EXCEPT !["recurringRules"] = (0 :> rule)]
    /\ mem = [t \in StoreTables |-> active(db[t])]
    /\ localStorage = {}
    /\ clock = 1
    /\ nextId = 0
    /\ saved = NoFile
    /\ exports = 0
    /\ reading = NoRead
    /\ crypto = NoCrypto
    /\ idb = Opened
    /\ inflight = <<>>
    /\ last = Op("init")
    /\ trip = 0
    /\ snap = NoRows

\* the inflight list without its i-th entry
Without(list, i) == SubSeq(list, 1, i - 1) \o SubSeq(list, i + 1, Len(list))

\* processRecurringRules, its first await: the active rules are read
ProcessRead ==
    /\ Len(inflight) < MaxRuns
    /\ inflight' = Append(inflight,
                          [fn |-> "processRecurringRules", pc |-> "loop", k |-> 1,
                           rules |-> toArray(active(db["recurringRules"])),
                           dates |-> <<>>])
    /\ last' = Op("processRead")
    /\ EndTrip
    /\ UNCHANGED <<db, mem, localStorage, clock, nextId, saved, exports, reading,
                   crypto, idb>>

\* one pass of the for loop up to its second await: the transactions for the
\* rule as it was read are built and bulkAdded, if there are any
ProcessGenerate(r) ==
    /\ r \in DOMAIN inflight
    /\ inflight[r].pc = "loop"
    /\ inflight[r].k <= Len(inflight[r].rules)
    /\ LET rule == inflight[r].rules[inflight[r].k]
           dates == IF rule.isActive THEN NewDates(rule, clock) ELSE <<>>
       IN  IF dates = <<>>
           THEN /\ inflight' = [inflight EXCEPT ![r].k = @ + 1]
                /\ UNCHANGED <<db, nextId>>
           ELSE /\ nextId + Len(dates) <= MaxIds
                /\ db' = [db EXCEPT !["transactions"] =
                            BulkAddGenerated(@, rule, dates, nextId + 1, clock)]
                /\ nextId' = nextId + Len(dates)
                /\ inflight' = [inflight EXCEPT ![r].pc = "added", ![r].dates = dates]
    /\ last' = Op("processGenerate")
    /\ EndTrip
    /\ UNCHANGED <<mem, localStorage, clock, saved, exports, reading, crypto, idb>>

\* the rest of the pass: the rule's lastGeneratedDate is advanced
ProcessAdvance(r) ==
    /\ r \in DOMAIN inflight
    /\ inflight[r].pc = "added"
    /\ LET rule == inflight[r].rules[inflight[r].k]
           dates == inflight[r].dates
       IN  db' = [db EXCEPT !["recurringRules"] =
                     TableUpdate(@, rule.id, [lastGeneratedDate |-> dates[Len(dates)],
                                              updatedAt |-> clock])]
    /\ inflight' = [inflight EXCEPT ![r].pc = "loop", ![r].k = @ + 1, ![r].dates = <<>>]
    /\ last' = Op("processAdvance")
    /\ EndTrip
    /\ UNCHANGED <<mem, localStorage, clock, nextId, saved, exports, reading, crypto, idb>>

\* the run ends between the bulkAdd and the rule's update: the update rejects,
\* or the page goes away
ProcessFail(r) ==
    /\ r \in DOMAIN inflight
    /\ inflight[r].pc = "added"
    /\ inflight' = Without(inflight, r)
    /\ last' = [Op("processFail") EXCEPT !.err = "failed"]
    /\ EndTrip
    /\ UNCHANGED <<db, mem, localStorage, clock, nextId, saved, exports, reading,
                   crypto, idb>>

\* the for loop is over: the run returns
ProcessReturn(r) ==
    /\ r \in DOMAIN inflight
    /\ inflight[r].pc = "loop"
    /\ inflight[r].k > Len(inflight[r].rules)
    /\ inflight' = Without(inflight, r)
    /\ last' = Op("processReturn")
    /\ EndTrip
    /\ UNCHANGED <<db, mem, localStorage, clock, nextId, saved, exports, reading,
                   crypto, idb>>

\* a day passes
DayPasses ==
    /\ clock < MaxClock
    /\ clock' = clock + 1
    /\ last' = Op("day")
    /\ EndTrip
    /\ UNCHANGED <<db, mem, localStorage, nextId, saved, exports, reading, crypto,
                   idb, inflight>>

RecurNext ==
    \/ ProcessRead
    \/ \E r \in 1..MaxRuns : ProcessGenerate(r)
    \/ \E r \in 1..MaxRuns : ProcessAdvance(r)
    \/ \E r \in 1..MaxRuns : ProcessFail(r)
    \/ \E r \in 1..MaxRuns : ProcessReturn(r)
    \/ DayPasses

RecurSpec == RecurInit /\ [][RecurNext]_vars

(* ------------------------ default-account seeding --------------------- *)
MAIN_ACCOUNT == "Main Account"

\* the accounts table the application starts on: empty, or holding an account
\* of the user's, live or soft-deleted
SeedTables ==
    {EmptyTable,
     (0 :> NewRow(0, "n1", 0)),
     (0 :> Merge(NewRow(0, "n1", 0), [deletedAt |-> 0]))}

SeedInit ==
    /\ \E accounts \in SeedTables : db = [NoRows EXCEPT !["accounts"] = accounts]
    /\ mem = [t \in StoreTables |-> active(db[t])]
    /\ localStorage = {}
    /\ clock = 1
    /\ nextId = 0
    /\ saved = NoFile
    /\ exports = 0
    /\ reading = NoRead
    /\ crypto = NoCrypto
    /\ idb = Opened
    /\ inflight = <<>>
    /\ last = Op("init")
    /\ trip = 0
    /\ snap = NoRows

\* Table.count(): every row, soft-deleted ones included
count(tbl) == Cardinality(DOMAIN tbl)

\* seedDefaultAccount, its first await: the accounts are counted
SeedCount ==
    /\ Len(inflight) < MaxRuns
    /\ inflight' = Append(inflight,
                          [fn |-> "seedDefaultAccount", count |-> count(db["accounts"])])
    /\ last' = Op("seedCount")
    /\ EndTrip
    /\ UNCHANGED <<db, mem, localStorage, clock, nextId, saved, exports, reading,
                   crypto, idb>>

\* the rest of seedDefaultAccount: with a count of 0 the account is added
SeedAdd(r) ==
    /\ r \in DOMAIN inflight
    /\ IF inflight[r].count = 0
       THEN /\ nextId < MaxIds
            /\ db' = [db EXCEPT !["accounts"] =
                        Put(@, NewRow(nextId + 1, MAIN_ACCOUNT, clock))]
            /\ nextId' = nextId + 1
            /\ last' = [Op("seedAdd") EXCEPT !.changed = TRUE]
       ELSE /\ UNCHANGED <<db, nextId>>
            /\ last' = Op("seedAdd")
    /\ inflight' = Without(inflight, r)
    /\ EndTrip
    /\ UNCHANGED <<mem, localStorage, clock, saved, exports, reading, crypto, idb>>

SeedNext ==
    \/ SeedCount
    \/ \E r \in 1..MaxRuns : SeedAdd(r)
    \/ \E id \in Ids : id \in DOMAIN mem["accounts"] /\ Remove("accounts", id)
    \/ Load("accounts")

SeedSpec == SeedInit /\ [][SeedNext]_vars

(* ============================== properties ============================ *)
\* the file the last import was given
LastFile == InputFile(saved, last.variant)

ImportTableSet == {ImportTables[i] : i \in DOMAIN ImportTables}

\* the entries with a key in the file's array for table t (none when absent)
EntriesOf(text, t) ==
    IF HasMember(text, t)
    THEN UNION { {arr[i] : i \in {j \in DOMAIN arr : "id" \in DOMAIN arr[j]}}
                 : arr \in {ParseArray(Member(text, t))} }
    ELSE {}

IdsOf(text, t) == {e["id"] : e \in EntriesOf(text, t)}

\* the last entry with the given id in the file's array for table t
LastEntry(text, t, id) ==
    LET arr == ParseArray(Member(text, t))
        at == {j \in DOMAIN arr : "id" \in DOMAIN arr[j] /\ arr[j]["id"] = id}
    IN  arr[CHOOSE j \in at : \A i \in at : i <= j]

RowsOf(tbl) == {tbl[i] : i \in DOMAIN tbl}

ImportFailed == last.op = "import" /\ last.err # "none"
ImportSucceeded == last.op = "import" /\ last.err = "none"

\* C1: when importData fails inside its transaction (a bad array at the k-th
\* table, or a storage failure), every one of the six imported tables holds
\* exactly the rows it held before the call
C1_ImportAllOrNothing ==
    [][ImportFailed' => \A t \in ImportTableSet : db'[t] = db[t]]_vars

\* an import has failed at a later table after earlier tables were written
C1_Witness ==
    /\ ImportFailed
    /\ last.variant[1] = "bad"
    /\ last.err = "transaction"
    /\ last.failedAt > 1
    /\ last.partial

\* C2: a file whose version is not the supported one is refused before any
\* transaction is opened, and no table changes
C2_VersionGate ==
    [][(last'.op = "import" /\ Member(LastFile', "version") # EXPORT_VERSION)
        => /\ last'.err = "version"
           /\ ~last'.partial
           /\ db' = db]_vars

\* a version-2 file was refused although its arrays would have changed the store
C2_Witness ==
    /\ last.op = "import"
    /\ last.variant[1] = "version"
    /\ last.err = "version"
    /\ \E t \in ImportTableSet :
          bulkPut(db[t], ParseArray(Member(saved, t))).tbl # db[t]

\* C3: a file with the supported version that lacks a required field (a table
\* array is absent, or it is an encrypted-export wrapper) is rejected with an
\* error and is never reported as a successful import
C3_MalformedRejected ==
    (/\ last.op = "import"
     /\ Member(LastFile, "version") = EXPORT_VERSION
     /\ \E t \in ImportTableSet : ~HasMember(LastFile, t))
    => (last.err # "none" /\ last.message # "Import successful!")

\* C4: export, then deleteAllData, then import of the exported file gives back
\* every one of the eight tables exactly as it was at the export
C4_RoundTrip == trip = 3 => \A t \in TableNames : db[t] = snap[t]

\* C5: the exported file carries version 1, an exportedAt stamp, and for each
\* of the eight tables an array holding every row of the table
C5_ExportReadsEveryTable ==
    last.op = "export" =>
        /\ HasMember(saved, "version")
        /\ Member(saved, "version") = EXPORT_VERSION
        /\ HasMember(saved, "exportedAt")
        /\ \A t \in TableNames :
              /\ HasMember(saved, t)
              /\ EntriesOf(saved, t) = RowsOf(db[t])

\* C6: every soft-deleted row of every store is in the exported file with its
\* deletedAt, while the store's default (load) query leaves it out
C6_TombstonesExported ==
    last.op = "export" =>
        \A t \in StoreTables : \A id \in DOMAIN db[t] :
            IsDeleted(db[t][id]) =>
                /\ id \notin DOMAIN active(db[t])
                /\ \E e \in EntriesOf(saved, t) :
                      /\ e = db[t][id]
                      /\ "deletedAt" \in DOMAIN e

\* C7: importing the same file again right after it was imported succeeds and
\* leaves every table as the first import left it; importing the file that was
\* just exported from the store changes nothing
C7_ImportIdempotent ==
    [][/\ (/\ last.op = "import" /\ last.err = "none"
           /\ last'.op = "import" /\ last'.variant = last.variant)
          => (last'.err = "none" /\ db' = db)
       /\ (/\ last.op = "export"
           /\ last'.op = "import" /\ last'.variant = <<"asis", 0>>)
          => (last'.err = "none" /\ db' = db)]_vars

\* a file was imported twice in a row, and the first import had changed the store
C7_Witness == ImportSucceeded /\ last.rep /\ last.repOfChange

\* C8: a successful import keeps every row whose id its file does not mention,
\* with the same field values, and removes no row
C8_ImportMerges ==
    [][ImportSucceeded' =>
        \A file \in {LastFile'} : \A t \in TableNames :
            \A ids \in {IdsOf(file, t)} : \A id \in DOMAIN db[t] :
                /\ id \in DOMAIN db'[t]
                /\ id \notin ids => db'[t][id] = db[t][id]]_vars

\* an import changed the store and left in place a row its file does not
\* mention, in a table for which the file has other rows
C8_Witness ==
    /\ ImportSucceeded
    /\ last.changed
    /\ \E t \in ImportTableSet :
          /\ IdsOf(LastFile, t) # {}
          /\ \E id \in DOMAIN db[t] : id \notin IdsOf(LastFile, t)

\* C9: a successful import leaves every table whose array the file omits as
\* it was
C9_OmittedUntouched ==
    [][ImportSucceeded' =>
        \A file \in {LastFile'} : \A t \in TableNames :
            ~HasMember(file, t) => db'[t] = db[t]]_vars

\* an import succeeded on a file that omits a table whose saved array differs
\* from the table
C9_Witness ==
    /\ ImportSucceeded
    /\ last.variant[1] = "omit"
    /\ LET t == ImportTables[last.variant[2]]
       IN  /\ db[t] # EmptyTable
           /\ bulkPut(db[t], ParseArray(Member(saved, t))).tbl # db[t]

\* C10: after a successful import, for every table whose array is in the file
\* and every id in that array, the stored row equals the array's last entry
\* with that id
C10_ImportPostcondition ==
    ImportSucceeded =>
        \A t \in TableNames : HasMember(LastFile, t) =>
            \A id \in IdsOf(LastFile, t) :
                /\ id \in DOMAIN db[t]
                /\ db[t][id] = LastEntry(LastFile, t, id)

\* C11: after deleteAllData has completed without error, every one of the
\* eight tables is empty and localStorage holds no key
C11_WipeEmptiesEverything ==
    (last.op = "wipe" /\ last.err = "none")
    => /\ \A t \in TableNames : db[t] = EmptyTable
       /\ localStorage = {}

\* C12: when deleteAllData raises an error at any of its steps (a clear inside
\* the transaction, or localStorage.clear() after it), no table and no
\* setting has been modified
C12_FailedWipeChangesNothing ==
    [][(last'.op = "wipe" /\ last'.err # "none")
        => (db' = db /\ localStorage' = localStorage)]_vars

\* C13: remove(id) on a stored record of any entity store sets deletedAt on
\* the row and keeps it in the table with its other fields, drops it from the
\* store's list, and every load() leaves soft-deleted rows out of the list
C13_SoftDelete ==
    [][/\ \A t \in StoreTables : \A id \in DOMAIN db[t] :
            Remove(t, id) =>
                /\ DOMAIN db'[t] = DOMAIN db[t]
                /\ IsDeleted(db'[t][id])
                /\ \A k \in DOMAIN db[t][id] \ {"deletedAt", "updatedAt"} :
                      db'[t][id][k] = db[t][id][k]
                /\ id \notin DOMAIN mem'[t]
                /\ id \notin DOMAIN active(db'[t])
       /\ \A t \in StoreTables :
            Load(t) =>
                \A id \in DOMAIN db'[t] :
                    IsDeleted(db'[t][id]) => id \notin DOMAIN mem'[t]]_vars

\* a store was loaded after one of its records was removed: the row is in the
\* table with deletedAt set and not in the list
C13_Witness ==
    /\ last.op = "load"
    /\ \E t \in StoreTables : \E id \in DOMAIN db[t] :
          /\ IsDeleted(db[t][id])
          /\ id \notin DOMAIN mem[t]
          /\ mem[t] = active(db[t])

\* C14: update(id, changes) and remove(id) with an id that is not in the table
\* end in a not-found error and leave the table and the store's list as they
\* were; they do not complete as a success
C14_NotFound ==
    [][\A t \in StoreTables : \A id \in Ids \ DOMAIN db[t] :
          ((\E n \in Names : Update(t, id, n)) \/ Remove(t, id))
          => /\ last'.err = "notfound"
             /\ db' = db
             /\ mem' = mem]_vars

\* C15: the updatedAt stored for a record id never decreases, whatever
\* operation is applied (add, update, remove, or importData of a valid file)
C15_UpdatedAtMonotone ==
    [][\A t \in TableNames : \A id \in (DOMAIN db[t]) \cap (DOMAIN db'[t]) :
          db'[t][id].updatedAt >= db[t][id].updatedAt]_vars

\* the six arrays exportAllData would read from tables d
ArraysOf(d) == [i \in DOMAIN ExportTables |-> toArray(d[ExportTables[i]])]

\* C16: an export that runs beside imports has read, for the six tables
\* together, either the tables as they were before the import or the tables as
\* they are after it, never some tables from before and others from after
C16_NoHalfAppliedImport ==
    (reading.on /\ Len(reading.arrays) = Len(ExportTables))
    => \/ reading.arrays = ArraysOf(reading.from)
       \/ reading.arrays = ArraysOf(db)

\* C17: for every passphrase P and plaintext T, decryptData(encryptData(T, P), P)
\* returns exactly T.
C17_RoundTrip ==
    (crypto.stage = "decrypted" /\ crypto.how = "none" /\ crypto.used = crypto.pass)
        => /\ crypto.result.err = "none"
           /\ crypto.result.val = crypto.text

\* C18: an envelope with one byte changed at offset 28 or later fails to
\* decrypt under the passphrase it was made with, and no modified envelope
\* decrypts to a plaintext other than the one encrypted.
C18_TamperDetected ==
    (crypto.stage = "decrypted" /\ crypto.how # "none")
        => /\ (/\ crypto.how = "tamper"
               /\ crypto.at > SALT_LEN + IV_LEN
               /\ crypto.used = crypto.pass) => crypto.result.err # "none"
           /\ crypto.result.err = "none" => crypto.result.val = crypto.text

\* a changed ciphertext byte, read back with the right passphrase, was refused
C18_Witness ==
    /\ crypto.stage = "decrypted"
    /\ crypto.how = "tamper"
    /\ crypto.at > SALT_LEN + IV_LEN
    /\ crypto.at <= Len(crypto.env) - TAG_LEN
    /\ crypto.used = crypto.pass
    /\ crypto.result.err = "OperationError"

\* the error decryptData ends in when the envelope is intact and the
\* passphrase is another one
WrongPassphraseError ==
    decryptData(encryptData(<<"a">>, <<"p">>, [i \in 1..SALT_LEN |-> Raw(1)],
                            [i \in 1..IV_LEN |-> Raw(3)]), <<"q">>).err

\* C19: every failure of decryptData (wrong passphrase, corrupted, truncated or
\* non-base64 envelope, tampered envelope) ends in one and the same error.
C19_UniformFailure ==
    (crypto.stage = "decrypted" /\ crypto.result.err # "none")
        => crypto.result.err = WrongPassphraseError

\* C20: verifyPassphrase(Q, hashPassphrase(P)) is true exactly when Q = P; it
\* returns false for a verifier that fails to decrypt, and never throws.
C20_VerifierCorrect ==
    crypto.stage = "verified"
        => /\ crypto.result.err = "none"
           /\ crypto.how = "none" => (crypto.result.val <=> crypto.used = crypto.pass)
           /\ crypto.how # "none" => ~crypto.result.val

\* the bytes of an envelope
BytesOf(env) == base64ToUint8Array(env).val

\* C21: every encryptData call puts a new 16-byte salt and a new 12-byte nonce
\* in its envelope, so no two encryptData calls return the same envelope, the
\* plaintext and passphrase being equal or not.
C21_EnvelopeFresh ==
    \A i, j \in DOMAIN crypto.outs :
        (i < j /\ crypto.outs[i].fn = "encryptData" /\ crypto.outs[j].fn = "encryptData")
            => \A a \in {BytesOf(crypto.outs[i].env)} : \A b \in {BytesOf(crypto.outs[j].env)} :
                  /\ a # b
                  /\ Len(slice(a, 0, SALT_LEN)) = 16
                  /\ Len(slice(a, SALT_LEN, SALT_LEN + IV_LEN)) = 12
                  /\ slice(a, 0, SALT_LEN) # slice(b, 0, SALT_LEN)
                  /\ slice(a, SALT_LEN, SALT_LEN + IV_LEN)
                        # slice(b, SALT_LEN, SALT_LEN + IV_LEN)

\* two encryptData calls were made with the same plaintext and passphrase
C21_Witness ==
    \E i, j \in DOMAIN crypto.outs :
        /\ i < j
        /\ crypto.outs[i].fn = "encryptData" /\ crypto.outs[j].fn = "encryptData"
        /\ crypto.outs[i].text = crypto.outs[j].text
        /\ crypto.outs[i].pass = crypto.outs[j].pass

\* C23: over any sequence of encryptData and hashPassphrase calls, no two
\* AES-GCM encryptions are made under the same derived key with the same nonce.
C23_NoNonceReuse ==
    \A i, j \in DOMAIN crypto.uses :
        i < j => ~(/\ crypto.uses[i].key = crypto.uses[j].key
                   /\ crypto.uses[i].iv = crypto.uses[j].iv)

\* hashPassphrase ran twice with one passphrase (both under the zero nonce),
\* and encryptData ran with that passphrase too
C23_Witness ==
    \E i, j, k \in DOMAIN crypto.outs :
        /\ i < j
        /\ crypto.outs[i].fn = "hashPassphrase" /\ crypto.outs[j].fn = "hashPassphrase"
        /\ crypto.outs[k].fn = "encryptData"
        /\ crypto.outs[i].pass = crypto.outs[j].pass
        /\ crypto.outs[k].pass = crypto.outs[i].pass
        /\ crypto.uses[i].iv = crypto.uses[j].iv

\* C24: encryptData puts the salt at bytes 0..15, the nonce at bytes 16..27
\* and the ciphertext with its tag from byte 28 on, and decryptData reads them
\* from these offsets: an unmodified envelope is opened with the salt and
\* nonce it was made with.
C24_LayoutAgreement ==
    (crypto.stage = "decrypted" /\ crypto.how = "none" /\ crypto.used = crypto.pass)
        => \A bytes \in {BytesOf(crypto.env)} :
              /\ slice(bytes, 0, 16) = crypto.salt
              /\ slice(bytes, 16, 28) = crypto.iv
              /\ slice(bytes, 28, Len(bytes))
                    = AesGcmEncrypt(deriveKey(crypto.pass, crypto.salt), crypto.iv,
                                    TextEncode(crypto.text))
              /\ crypto.result.err = "none"

\* an unmodified envelope of a two-unit plaintext was opened
C24_Witness ==
    /\ crypto.stage = "decrypted"
    /\ crypto.how = "none"
    /\ crypto.used = crypto.pass
    /\ Len(crypto.text) = 2
    /\ Len(crypto.env) = 28 + Len(TextEncode(crypto.text)) + TAG_LEN
    /\ crypto.result.err = "none"

\* the version steps applied so far are in ascending order, none twice
StepsInOrder(steps) == \A i, j \in DOMAIN steps : i < j => steps[i] < steps[j]

\* C22: opening a version-1 store with the version-2 schema leaves the seven
\* existing tables as they were and adds an empty creditCards table; on every
\* sequence of opens the version steps are applied in order, each at most once.
C22_SchemaEvolution ==
    [][/\ StepsInOrder(idb'.steps)
       /\ (~idb.open /\ idb'.open /\ idb.version = 1)
            => /\ DOMAIN db' = TableNames
               /\ \A t \in StoresOf(1) : db'[t] = db[t]
               /\ db'["creditCards"] = EmptyTable
               /\ idb'.steps = <<1, 2>>
       /\ (~idb.open /\ idb'.open /\ idb.version = 2)
            => (db' = db /\ idb'.steps = idb.steps)]_vars

\* a version-1 store with rows was opened, a credit card was added, and the
\* store was closed and opened again
C22_Witness ==
    /\ last.op = "open"
    /\ idb.open
    /\ idb.steps = <<1, 2>>
    /\ db["accounts"] # EmptyTable
    /\ db["creditCards"] # EmptyTable

\* the sum of the amounts of a list of payments
RECURSIVE SumAmounts(_)
SumAmounts(payments) ==
    IF payments = <<>> THEN 0 ELSE Head(payments).amount + SumAmounts(Tail(payments))

\* C25: once every addPayment call in flight has completed, the stored loan's
\* payments hold every payment submitted and remainingMinorUnits reflects all
\* of them.
C25_NoPaymentLost ==
    inflight = <<>>
        => \A id \in DOMAIN db["loans"] :
             \A loan \in {db["loans"][id]} :
                /\ {loan.payments[i].id : i \in DOMAIN loan.payments} = 1..nextId
                /\ loan.remainingMinorUnits
                      = Max(0, loan.principalMinorUnits - SumAmounts(loan.payments))

\* C29: every addPayment leaves remainingMinorUnits at max(0, previous
\* remaining - amount), never negative; the status is 'settled' exactly when
\* the new remaining is 0, 'partially_paid' when it is positive and below the
\* principal, 'active' otherwise; a settled loan stays settled.
C29_PaymentAccounting ==
    [][AddPaymentFinish =>
         \A call \in {Head(inflight)} :
           \A before \in {db["loans"][call.id]} : \A after \in {db'["loans"][call.id]} :
              /\ after.remainingMinorUnits
                    = Max(0, before.remainingMinorUnits - call.arg.amount)
              /\ after.remainingMinorUnits >= 0
              /\ after.status = "settled" <=> after.remainingMinorUnits = 0
              /\ (/\ after.remainingMinorUnits > 0
                  /\ after.remainingMinorUnits < after.principalMinorUnits)
                    => after.status = "partially_paid"
              /\ after.remainingMinorUnits >= after.principalMinorUnits
                    => after.status = "active"
              /\ before.status = "settled" => after.status = "settled"]_vars

\* C30: for positive amounts, over addTransaction, removeTransaction and
\* recordPayment on a card the balance is never negative; removeTransaction
\* removes exactly the transaction with the given id and changes nothing when
\* it is absent; recordPayment sets the status to 'active' when the balance
\* reaches 0 or the card was 'overdue' and otherwise leaves it unchanged.
C30_CardAccounting ==
    [][/\ \A id \in DOMAIN db'["creditCards"] : db'["creditCards"][id].balanceMinorUnits >= 0
       /\ CardFinish("removeTransaction") =>
            \A call \in {Head(inflight)} :
               db'["creditCards"][call.id].transactions
                  = WithoutTxn(db["creditCards"][call.id].transactions, call.arg)
       /\ (last'.op = "removeTransaction" /\ last'.err = "return")
            => (db' = db /\ mem' = mem /\ inflight' = inflight)
       /\ CardFinish("recordPayment") =>
            \A call \in {Head(inflight)} :
              \A before \in {db["creditCards"][call.id]} :
                \A after \in {db'["creditCards"][call.id]} :
                   after.status = IF after.balanceMinorUnits = 0 \/ before.status = "overdue"
                                  THEN "active" ELSE before.status]_vars

\* C26: once load() has completed and no store operation is in flight, each
\* store's list holds exactly the non-deleted rows of its table.
C26_CacheCoherent ==
    inflight = <<>> => \A t \in StoreTables : mem[t] = active(db[t])

\* C27: after any number of processRecurringRules runs (one after another,
\* overlapping, or failing between the insert and the rule's update) the
\* transactions table holds at most one generated transaction per
\* (recurringId, date).
C27_OncePerOccurrence ==
    \A i, j \in DOMAIN db["transactions"] :
       \A a \in {db["transactions"][i]} : \A b \in {db["transactions"][j]} :
          (i # j /\ a.isRecurring /\ b.isRecurring)
             => ~(a.recurringId = b.recurringId /\ a.date = b.date)

\* the accounts seedDefaultAccount has created
MainAccounts(tbl) == {id \in DOMAIN tbl : tbl[id].name = MAIN_ACCOUNT}

\* C28: whatever the number of seedDefaultAccount calls and however their
\* count and insert interleave, at most one 'Main Account' is created (exactly
\* one once a call has completed on a table that was empty), and a call adds
\* nothing to a table that holds a row, soft-deleted or not.
C28_SeedOnce ==
    [][/\ Cardinality(MainAccounts(db'["accounts"])) <= 1
       /\ \A r \in DOMAIN inflight :
            SeedAdd(r) =>
               /\ db["accounts"] # EmptyTable => db' = db
               /\ db["accounts"] = EmptyTable
                     => Cardinality(MainAccounts(db'["accounts"])) = 1]_vars

====
